---- MODULE Spec2Model ----
(***************************************************************************)
(* State-machine model of the LAVA roofing portal's browser modules:       *)
(* Storage (packet save/load), Crew, Jobs, Calendar, QuickCapture,         *)
(* SupabaseClient (packets and photos), Transcribe and Signature.          *)
(* Every module is modelled with the backend (Supabase tables and storage  *)
(* bucket) and the browser's localStorage as explicit state; every call to *)
(* the backend and every localStorage.setItem may fail.                    *)
(*                                                                         *)
(* The modules do not share state except SupabaseClient.initialized, so    *)
(* each module has its own next-state relation and specification; the      *)
(* variables of the other modules stay unchanged in it.                    *)
(***************************************************************************)
EXTENDS Integers, Sequences, FiniteSets, TLC

\* ------------------------------------------------------------------ bounds
MaxPackets == 2
MaxData == 2
MaxSaves == 2

\* ------------------------------------------------------------ value spaces
Null == "null"
DefaultId == "default"
NoData == "nodata"
PacketIds == {ToString(i) : i \in 1..MaxPackets}
Data == {"d" \o ToString(i) : i \in 1..MaxData}
StorageKeys == PacketIds \cup {DefaultId}
SaveSlots == 1..MaxSaves

VARIABLES
    \* SupabaseClient
    configured,       \* SupabaseClient.config.url && config.anonKey are set
    initialized,      \* SupabaseClient.initialized && client !== null
    \* Storage
    useSupabase,      \* Storage.useSupabase
    currentPacketId,  \* Storage.currentPacketId
    form,             \* packet data held by the page (what collectData reads)
    urlId,            \* URL parameter 'id'
    lsCurrentId,      \* localStorage 'lava_current_packet_id'
    lsPackets,        \* localStorage 'lavaPacketBuilder_<id>' -> packet data
    dbPackets,        \* Supabase table packets: id -> packet data
    saveCalls,        \* Storage.save() invocations awaiting savePacket
    storageRet,       \* what the last Storage operation did and returned
    \* Crew
    crewDb,           \* table team_members: id -> none / active / inactive
    crewLs,           \* localStorage 'lava_crew': id -> none / active / inactive
    crewDeleted,      \* the members for which Crew.delete(id) returned true
    crewRet,          \* what the last Crew operation returned
    \* Jobs and Calendar
    jobsDb,           \* Supabase table jobs: id -> job row
    jobsLs,           \* localStorage 'lava_jobs': id -> job
    pktClient,        \* packets.client_id of the packet jobs are created from
    calJobs,          \* Calendar.jobs: ids of the jobs the calendar shows
    calView,          \* Calendar.currentDate in day view: the displayed date
    calClientId,      \* dataset.clientId of the dialog's #selectedClient
    jobsRet,          \* what the last Jobs / Calendar operation returned
    \* QuickCapture
    qcBatch,          \* QuickCapture.batchItems: the entries { blob, type }
    qcCurrent,        \* currentBlob / currentType
    qcAdds,           \* the addCurrentToBatch() calls waiting for a thumbnail
    qcStep,           \* the step of the dialog that is shown
    qcRet,            \* what the last step of the capture dialog did
    qcClient,         \* selectedClientData / selectedClientId
    qcSave,           \* the position of the running QuickCapture.save()
    qcEffect,         \* the write the last QuickCapture step performed
    \* Packet photos
    phObjects,        \* objects of the storage bucket under packets/<id>/
    phRows,           \* rows of the table packet_photos
    phRet,            \* what the last packet operation returned
    \* Transcribe
    winKey,           \* window.OPENAI_API_KEY is set
    winUrl,           \* window.TRANSCRIBE_FUNCTION_URL is set
    metaKey,          \* the page has a meta tag openai-api-key
    metaUrl,          \* the page has a meta tag transcribe-function-url
    apiKey,           \* Transcribe.apiKey: where it came from, or Null
    edgeFunctionUrl,  \* Transcribe.edgeFunctionUrl: where it came from
    trRet,            \* the route the last Transcribe.transcribe() took
    \* Signature
    sigEmpty,         \* the signature canvas is empty
    sigDb,            \* table signatures: the packets that have a row
    sigLs,            \* localStorage 'lava_signatures': packets signed
    sigSaved,         \* the packets for which Signature.save() returned
    sigRet,           \* what the last Signature operation returned
    \* App (the page)
    urlPacket,        \* the URL parameter 'packet' of the page
    \* Auth
    appPassword,      \* settings row 'app_password': its value
    authSession,      \* sessionStorage 'lavaAuth' is 'true'
    authUnlocked,     \* the password screen is hidden
    authRet,          \* what the last Auth.checkPassword() did
    \* Voice
    voIsRecording,    \* Voice.isRecording
    voMediaRecorder,  \* Voice.mediaRecorder: a recorder, or Null
    voRecorders,      \* the MediaRecorders in state 'recording'
    voStreams,        \* the recorders whose microphone stream is live
    voStarts,         \* startRecording() calls waiting for getUserMedia
    voStopping,       \* recorders stopped by stopRecording(), event due
    voiceRet,         \* what the last call or event of the recorder did
    \* AI assistant
    aiApiKey,         \* AIAssistant.apiKey is set
    aiClients,        \* AIAssistant.cachedClients: their names
    aiListening,      \* AIAssistant.isListening
    aiSuggestions,    \* the suggestions of the panel are shown
    aiCommand,        \* the last command given to processCommand()
    aiLocal,          \* what parseLocalIntent() made of it
    aiIntent,         \* what parseIntent() made of it
    aiResponse        \* the answer of executeIntent()

commonVars == <<configured, initialized>>
storageVars == <<useSupabase, currentPacketId, form, urlId, lsCurrentId,
                 lsPackets, dbPackets, saveCalls, storageRet>>
crewVars == <<crewDb, crewLs, crewDeleted, crewRet>>

jobsVars == <<jobsDb, jobsLs, pktClient, calJobs, calView, calClientId,
              jobsRet>>
captureVars == <<qcBatch, qcCurrent, qcAdds, qcStep, qcRet, qcClient, qcSave,
                 qcEffect>>
photoVars == <<phObjects, phRows, phRet>>
transcribeVars == <<winKey, winUrl, metaKey, metaUrl, apiKey,
                    edgeFunctionUrl, trRet>>
signatureVars == <<sigEmpty, sigDb, sigLs, sigSaved, sigRet>>

appVars == <<urlPacket>>

authVars == <<appPassword, authSession, authUnlocked, authRet>>

voiceVars == <<voIsRecording, voMediaRecorder, voRecorders, voStreams,
              voStarts, voStopping, voiceRet>>

assistantVars == <<aiApiKey, aiClients, aiListening, aiSuggestions,
                  aiCommand, aiLocal, aiIntent, aiResponse>>

vars == <<commonVars, storageVars, crewVars, jobsVars, captureVars,
          photoVars, transcribeVars, signatureVars, appVars, authVars,
          voiceVars, assistantVars>>
notAssistant == <<storageVars, crewVars, jobsVars, captureVars, photoVars,
                  transcribeVars, signatureVars, appVars, authVars,
                  voiceVars>>
notVoice == <<storageVars, crewVars, jobsVars, captureVars, photoVars,
              transcribeVars, signatureVars, appVars, authVars,
              assistantVars>>
notAuth == <<storageVars, crewVars, jobsVars, captureVars, photoVars,
             transcribeVars, signatureVars, appVars, voiceVars,
             assistantVars>>
notApp == <<crewVars, jobsVars, captureVars, photoVars, transcribeVars,
            signatureVars, authVars, voiceVars, assistantVars>>
notStorage == <<crewVars, jobsVars, captureVars, photoVars, transcribeVars,
                signatureVars, appVars, authVars, voiceVars, assistantVars>>
notCrew == <<storageVars, jobsVars, captureVars, photoVars, transcribeVars,
             signatureVars, appVars, authVars, voiceVars, assistantVars>>
notJobs == <<storageVars, crewVars, captureVars, photoVars, transcribeVars,
             signatureVars, appVars, authVars, voiceVars, assistantVars>>
notCapture == <<storageVars, crewVars, jobsVars, photoVars, transcribeVars,
                signatureVars, appVars, authVars, voiceVars, assistantVars>>
notPhotos == <<useSupabase, currentPacketId, form, urlId, lsCurrentId,
               lsPackets, saveCalls, storageRet, crewVars, jobsVars,
               captureVars, transcribeVars, signatureVars, appVars, authVars,
               voiceVars, assistantVars>>
notTranscribe == <<storageVars, crewVars, jobsVars, captureVars, photoVars,
                   signatureVars, appVars, authVars, voiceVars,
                   assistantVars>>
notSignature == <<storageVars, crewVars, jobsVars, captureVars, photoVars,
                  transcribeVars, appVars, authVars, voiceVars,
                  assistantVars>>
notCommon == <<storageVars, crewVars, jobsVars, captureVars, photoVars,
               transcribeVars, signatureVars, appVars, authVars, voiceVars,
               assistantVars>>

\* ================================================================ common
\* SupabaseClient.isAvailable()
isAvailable == initialized

\* SupabaseClient.init(): creates the client once the configuration is there.
\* Without configuration (or when createClient throws) nothing changes.
SupabaseInit ==
    /\ ~initialized
    /\ configured
    /\ initialized' = TRUE
    /\ UNCHANGED <<configured, notCommon>>

\* ================================================================ Storage
IdleCall == [pc |-> "idle", id |-> Null, content |-> NoData]

\* The record kept of the last Storage operation. For save(): attempts is
\* the number of savePacket requests, localWrites the number of setItem
\* calls on the packet key, remoteOK / localOK whether they succeeded.
\* For load(): afterFallback tells that the operation before it was a save()
\* that stored the packet locally because the remote save failed.
OpRecord(op, ret, via, attempts, remoteOK, localWrites, localOK, after) ==
    [op |-> op, ret |-> ret, viaSupabase |-> via, attempts |-> attempts,
     remoteOK |-> remoteOK, localWrites |-> localWrites, localOK |-> localOK,
     afterFallback |-> after]
NoOp == OpRecord("none", FALSE, FALSE, 0, FALSE, 0, FALSE, FALSE)

\* the template's content of a freshly loaded page
InitialForm == "d1"

\* Storage.getStorageKey(): the key suffix is currentPacketId
getStorageKey(cur) == cur

\* Storage.collectData(): id is null for the not-yet-saved packet
collectData ==
    [id |-> IF currentPacketId # DefaultId THEN currentPacketId ELSE Null,
     content |-> form]

\* Storage.saveToLocalStorage(data): its return value when setItem succeeds
\* (ok) or throws
saveToLocalStorage(ok) == ok

\* ids the packets table can still hand out (gen_random_uuid)
FreeIds == {p \in PacketIds : dbPackets[p] = NoData}
NewId ==
    LET n == CHOOSE i \in 1..MaxPackets :
                 /\ ToString(i) \in FreeIds
                 /\ \A j \in 1..(i-1) : ToString(j) \notin FreeIds
    IN ToString(n)

\* SupabaseClient.savePacket(packetData) on the server: the id of the row it
\* returns, or Null when the request fails / the update matches no row.
savePacket(id, fails) ==
    IF fails THEN Null
    ELSE IF id # Null
         THEN (IF id \in PacketIds /\ dbPackets[id] # NoData THEN id ELSE Null)
         ELSE (IF FreeIds # {} THEN NewId ELSE Null)

\* Storage.loadFromLocalStorage(): the data found under the key, if any
loadFromLocalStorage(cur) == lsPackets[getStorageKey(cur)]

\* SupabaseClient.getPacket(id): the row, or null on error / missing row
getPacket(id, fails) ==
    IF fails \/ id \notin PacketIds THEN NoData ELSE dbPackets[id]

\* Storage.loadFromSupabase(): getPacket never throws, so the catch block
\* with the localStorage fallback is not entered on a failed request.
loadFromSupabase(cur, fails) == getPacket(cur, fails)

\* Storage.load(): the data that ends up in the page (NoData: returns false)
load(cur, useSb, fails) ==
    IF useSb /\ cur # DefaultId
    THEN loadFromSupabase(cur, fails)
    ELSE loadFromLocalStorage(cur)

\* the last operation was a save() that fell back to localStorage because
\* the remote save failed, and it stored the packet
SavedByFallback ==
    /\ storageRet.op = "save"
    /\ storageRet.viaSupabase
    /\ ~storageRet.remoteOK
    /\ storageRet.localOK

\* Storage.init(packetId) at page load: packetId falls back to the URL id,
\* then to localStorage 'lava_current_packet_id', then to 'default'; then
\* load(). The page's pending requests of before the load are gone.
StorageInit(packetId, fails) ==
    LET pid == IF packetId # Null THEN packetId
               ELSE IF urlId # Null THEN urlId
               ELSE IF lsCurrentId # Null THEN lsCurrentId
               ELSE DefaultId
        d == load(pid, isAvailable, fails)
    IN
    /\ useSupabase' = isAvailable
    /\ currentPacketId' = pid
    /\ form' = IF d # NoData THEN d ELSE InitialForm
    /\ storageRet' = OpRecord("init", d # NoData, isAvailable, 0, FALSE, 0,
                              FALSE, FALSE)
    /\ saveCalls' = [s \in SaveSlots |-> IdleCall]
    /\ UNCHANGED <<urlId, lsCurrentId, lsPackets, dbPackets>>
    /\ UNCHANGED <<commonVars, notStorage>>

\* The user edits the packet in the page.
EditForm(d) ==
    /\ currentPacketId # Null
    /\ d # form
    /\ form' = d
    /\ storageRet' = NoOp
    /\ UNCHANGED <<useSupabase, currentPacketId, urlId, lsCurrentId,
                   lsPackets, dbPackets, saveCalls>>
    /\ UNCHANGED <<commonVars, notStorage>>

\* Storage.load()
StorageLoad(fails) ==
    LET d == load(currentPacketId, useSupabase, fails) IN
    /\ currentPacketId # Null
    /\ form' = IF d # NoData THEN d ELSE form
    /\ storageRet' = OpRecord("load", d # NoData, useSupabase, 0, FALSE, 0,
                              FALSE, SavedByFallback)
    /\ UNCHANGED <<useSupabase, currentPacketId, urlId, lsCurrentId,
                   lsPackets, dbPackets, saveCalls>>
    /\ UNCHANGED <<commonVars, notStorage>>

\* Storage.save() without Supabase: saveToLocalStorage(data) at once.
SaveLocal(ok) ==
    LET data == collectData
        key == getStorageKey(currentPacketId)
    IN
    /\ currentPacketId # Null
    /\ ~useSupabase
    /\ lsPackets' = IF ok THEN [lsPackets EXCEPT ![key] = data.content]
                    ELSE lsPackets
    /\ storageRet' = OpRecord("save", saveToLocalStorage(ok), FALSE, 0, FALSE,
                              1, ok, FALSE)
    /\ UNCHANGED <<useSupabase, currentPacketId, form, urlId, lsCurrentId,
                   dbPackets, saveCalls>>
    /\ UNCHANGED <<commonVars, notStorage>>

\* Storage.save() with Supabase, up to the await of savePacket(packetData):
\* the data is collected now, the request is in flight.
SaveBegin(s) ==
    LET data == collectData IN
    /\ currentPacketId # Null
    /\ useSupabase
    /\ saveCalls[s].pc = "idle"
    /\ \A t \in SaveSlots : t < s => saveCalls[t].pc # "idle"
    /\ saveCalls' = [saveCalls EXCEPT
                       ![s] = [pc |-> "remote", id |-> data.id,
                               content |-> data.content]]
    /\ storageRet' = NoOp
    /\ UNCHANGED <<useSupabase, currentPacketId, form, urlId, lsCurrentId,
                   lsPackets, dbPackets>>
    /\ UNCHANGED <<commonVars, notStorage>>

\* How often saveToSupabase calls SupabaseClient.savePacket for one save()
RemoteAttempts == 1

\* Whether saveToSupabase's catch block (the localStorage fallback) runs:
\* savePacket returned null, or a statement inside the try block threw
\* (localStorage.setItem('lava_current_packet_id', ...) for a new packet).
FallsBack(result, isNew, idSetOK) ==
    \/ result = Null
    \/ (isNew /\ ~idSetOK)

\* Storage.saveToSupabase(data) from the return of savePacket to its own
\* return. fails: the request fails; idSetOK: setItem of the current id
\* succeeds; ok: setItem of the packet data (fallback) succeeds.
SaveRemoteReturn(s, fails, idSetOK, ok) ==
    LET call == saveCalls[s]
        result == savePacket(call.id, fails)
        isNew == result # Null /\ call.id = Null
        cur == IF isNew THEN result ELSE currentPacketId
        fb == FallsBack(result, isNew, idSetOK)
        key == getStorageKey(cur)
    IN
    /\ call.pc = "remote"
    /\ dbPackets' = IF result # Null
                    THEN [dbPackets EXCEPT ![result] = call.content]
                    ELSE dbPackets
    /\ currentPacketId' = cur
    /\ lsCurrentId' = IF isNew /\ idSetOK THEN result ELSE lsCurrentId
    /\ urlId' = IF isNew /\ idSetOK THEN result ELSE urlId
    /\ lsPackets' = IF fb /\ ok THEN [lsPackets EXCEPT ![key] = call.content]
                    ELSE lsPackets
    /\ storageRet' = OpRecord("save",
                              IF fb THEN saveToLocalStorage(ok) ELSE TRUE,
                              TRUE, RemoteAttempts, result # Null,
                              IF fb THEN 1 ELSE 0, fb /\ ok, FALSE)
    /\ saveCalls' = [saveCalls EXCEPT ![s] = IdleCall]
    /\ UNCHANGED <<useSupabase, form>>
    /\ UNCHANGED <<commonVars, notStorage>>

\* App.getPacketId(): the URL parameter 'packet', or 'default'
getPacketId == IF urlPacket # Null THEN urlPacket ELSE DefaultId

\* The browser opens the builder page with the URL parameter packet = p (or
\* without it): App.initModules() runs SupabaseClient.init() and then
\* Storage.init(App.getPacketId()). sbOK: createClient does not throw.
AppOpen(p, sbOK, fails) ==
    LET pid == IF p # Null THEN p ELSE DefaultId
        avail == configured /\ sbOK
        d == load(pid, avail, fails)
    IN
    /\ urlPacket' = p
    /\ urlId' = Null
    /\ initialized' = avail
    /\ useSupabase' = avail
    /\ currentPacketId' = pid
    /\ form' = IF d # NoData THEN d ELSE InitialForm
    /\ storageRet' = OpRecord("open", d # NoData, avail, 0, FALSE, 0, FALSE,
                              FALSE)
    /\ saveCalls' = [s \in SaveSlots |-> IdleCall]
    /\ UNCHANGED <<configured, lsCurrentId, lsPackets, dbPackets>>
    /\ UNCHANGED notApp

\* The page is reloaded: the URL is the one the page has now, with the
\* parameter 'id' if a save has recorded one; App.initModules() runs again.
AppReload(sbOK, fails) ==
    LET pid == getPacketId
        avail == configured /\ sbOK
        d == load(pid, avail, fails)
    IN
    /\ currentPacketId # Null
    /\ initialized' = avail
    /\ useSupabase' = avail
    /\ currentPacketId' = pid
    /\ form' = IF d # NoData THEN d ELSE InitialForm
    /\ storageRet' = OpRecord("reload", d # NoData, avail, 0, FALSE, 0, FALSE,
                              FALSE)
    /\ saveCalls' = [s \in SaveSlots |-> IdleCall]
    /\ UNCHANGED <<configured, urlPacket, urlId, lsCurrentId, lsPackets,
                   dbPackets>>
    /\ UNCHANGED notApp

StorageInitState ==
    /\ urlPacket = Null
    /\ useSupabase = FALSE
    /\ currentPacketId = Null
    /\ form = InitialForm
    /\ urlId = Null
    /\ lsCurrentId = Null
    /\ lsPackets = [k \in StorageKeys |-> NoData]
    /\ dbPackets = [p \in PacketIds |-> NoData]
    /\ saveCalls = [s \in SaveSlots |-> IdleCall]
    /\ storageRet = NoOp

StorageNext ==
    \/ \E p \in PacketIds \cup {Null, DefaultId}, f \in BOOLEAN :
          StorageInit(p, f)
    \/ \E d \in Data : EditForm(d)
    \/ \E f \in BOOLEAN : StorageLoad(f)
    \/ \E ok \in BOOLEAN : SaveLocal(ok)
    \/ \E s \in SaveSlots : SaveBegin(s)
    \/ \E s \in SaveSlots, f, i, ok \in BOOLEAN : SaveRemoteReturn(s, f, i, ok)

\* ------------------------------------------------------------ Storage claims

\* C1: with Supabase in use, a completed Storage.save() made exactly one remote
\* save attempt, wrote the packet to localStorage exactly once if that attempt
\* failed (and never more than once), and returned true if and only if the
\* remote write or the local fallback write succeeded.
C1_SaveOnceAndReportsSuccess ==
    (storageRet.op = "save" /\ storageRet.viaSupabase) =>
        /\ storageRet.attempts = 1
        /\ (~storageRet.remoteOK => storageRet.localWrites = 1)
        /\ storageRet.localWrites <= 1
        /\ (storageRet.ret <=> (storageRet.remoteOK \/ storageRet.localOK))

\* C2: a Storage.load() that follows a save() which stored the packet in
\* localStorage because the remote save failed returns true and restores
\* that data, even though Supabase is in use.
C2_LoadRestoresFallback ==
    (storageRet.op = "load" /\ storageRet.afterFallback) =>
        /\ storageRet.ret
        /\ form = lsPackets[getStorageKey(currentPacketId)]

\* C14: once a first remote save has recorded the new packet's id in the URL
\* parameter 'id' and in localStorage 'lava_current_packet_id', a page reload
\* initialises Storage with currentPacketId equal to that id.
C14_ReloadKeepsSavedPacket ==
    (storageRet.op = "reload" /\ urlId # Null /\ lsCurrentId = urlId) =>
        currentPacketId = urlId

\* C15: a packet row is inserted only while the packet of the page is not
\* yet saved (currentPacketId is 'default'), so that the save() calls for one
\* new packet insert at most one row.
C15_OneRowPerNewPacket ==
    [][\A p \in PacketIds :
          (dbPackets[p] = NoData /\ dbPackets'[p] # NoData) =>
              currentPacketId = DefaultId]_vars

\* =================================================================== Crew
MaxMembers == 2
MemberIds == {"m" \o ToString(i) : i \in 1..MaxMembers}

CrewRecord(op, ret, listed) == [op |-> op, ret |-> ret, listed |-> listed]

\* ids not yet handed out by gen_random_uuid() / crypto.randomUUID()
FreeMemberIds == {m \in MemberIds : crewDb[m] = "none" /\ crewLs[m] = "none"}
NewMemberId ==
    LET n == CHOOSE i \in 1..MaxMembers :
                 /\ ("m" \o ToString(i)) \in FreeMemberIds
                 /\ \A j \in 1..(i-1) : ("m" \o ToString(j)) \notin FreeMemberIds
    IN "m" \o ToString(n)

\* Crew.listLocal(): everything stored under 'lava_crew'
listLocal == {m \in MemberIds : crewLs[m] # "none"}

\* Crew.list(includeInactive = false) against the backend
listRemote(fails) ==
    IF fails THEN {} ELSE {m \in MemberIds : crewDb[m] = "active"}

\* Crew.list()
CrewList(fails) ==
    /\ crewRet' = CrewRecord("list", TRUE,
                             IF ~isAvailable THEN listLocal
                             ELSE listRemote(fails))
    /\ UNCHANGED <<crewDb, crewLs, crewDeleted>>
    /\ UNCHANGED <<commonVars, notCrew>>

\* Crew.create(memberData) -> insert, or createLocal
CrewCreate(fails) ==
    /\ FreeMemberIds # {}
    /\ IF ~isAvailable
       THEN /\ crewLs' = [crewLs EXCEPT ![NewMemberId] = "active"]
            /\ crewRet' = CrewRecord("create", TRUE, {NewMemberId})
            /\ UNCHANGED crewDb
       ELSE IF fails
       THEN /\ crewRet' = CrewRecord("create", FALSE, {})
            /\ UNCHANGED <<crewDb, crewLs>>
       ELSE /\ crewDb' = [crewDb EXCEPT ![NewMemberId] = "active"]
            /\ crewRet' = CrewRecord("create", TRUE, {NewMemberId})
            /\ UNCHANGED crewLs
    /\ UNCHANGED crewDeleted
    /\ UNCHANGED <<commonVars, notCrew>>

\* Crew.deleteLocal(id): marks the stored member inactive
deleteLocal(id) ==
    IF crewLs[id] = "none" THEN crewLs ELSE [crewLs EXCEPT ![id] = "inactive"]

\* Crew.delete(id): soft delete (active = false); the backend update
\* succeeds also when no row has that id
CrewDelete(id, fails) ==
    LET ret == IF ~isAvailable THEN crewLs[id] # "none" ELSE ~fails IN
    /\ IF ~isAvailable
       THEN /\ crewLs' = deleteLocal(id)
            /\ UNCHANGED crewDb
       ELSE /\ crewDb' = IF ~fails /\ crewDb[id] # "none"
                         THEN [crewDb EXCEPT ![id] = "inactive"]
                         ELSE crewDb
            /\ UNCHANGED crewLs
    /\ crewRet' = CrewRecord("delete", ret, {})
    /\ crewDeleted' = IF ret THEN crewDeleted \cup {id} ELSE crewDeleted
    /\ UNCHANGED <<commonVars, notCrew>>

CrewInitState ==
    /\ crewDb = [m \in MemberIds |-> "none"]
    /\ crewLs = [m \in MemberIds |-> "none"]
    /\ crewDeleted = {}
    /\ crewRet = CrewRecord("none", FALSE, {})

CrewNext ==
    \/ \E f \in BOOLEAN : CrewList(f)
    \/ \E f \in BOOLEAN : CrewCreate(f)
    \/ \E m \in MemberIds, f \in BOOLEAN : CrewDelete(m, f)

\* C3: once Crew.delete(id) has returned true, no later Crew.list() includes
\* that member, in backend mode and in localStorage-fallback mode.
C3_ListExcludesDeleted ==
    crewRet.op = "list" => crewRet.listed \cap crewDeleted = {}

\* ====================================================== Jobs and Calendar
MaxJobs == 2
MaxDate == 2
NoDate == 0
Today == 1
JobIds == {"j" \o ToString(i) : i \in 1..MaxJobs}
Dates == 1..MaxDate
Clients == {"c1"}
JobPacket == "p1"
NoJob == [client_id |-> Null, packet_id |-> Null, scheduled_date |-> NoDate,
          status |-> "none"]

JobsRecord(op, ok, job, startDate, endDate, listed, refreshed) ==
    [op |-> op, ok |-> ok, job |-> job, startDate |-> startDate,
     endDate |-> endDate, listed |-> listed, refreshed |-> refreshed]
NoJobsOp == JobsRecord("none", FALSE, Null, NoDate, NoDate, {}, FALSE)

\* ids not yet handed out by gen_random_uuid() / crypto.randomUUID()
FreeJobIds == {j \in JobIds : jobsDb[j] = NoJob /\ jobsLs[j] = NoJob}
NewJobId ==
    LET n == CHOOSE i \in 1..MaxJobs :
                 /\ ("j" \o ToString(i)) \in FreeJobIds
                 /\ \A k \in 1..(i-1) : ("j" \o ToString(k)) \notin FreeJobIds
    IN "j" \o ToString(n)

\* the job stored under an id, in the backend or in localStorage
JobOf(j) == IF jobsDb[j] # NoJob THEN jobsDb[j] ELSE jobsLs[j]
AllJobs == {j \in JobIds : JobOf(j) # NoJob}

\* Jobs.createFromPacket(packetId): the jobData built from the packet row
packetJobData ==
    [client_id |-> pktClient, packet_id |-> JobPacket,
     scheduled_date |-> NoDate, status |-> "pending"]

\* eventData that leaves the client out
eventDataWithoutClient(dateStr) ==
    [client_id |-> Null, packet_id |-> Null,
     scheduled_date |-> dateStr, status |-> "scheduled"]

\* Calendar.saveEvent(): the eventData built from the dialog
eventData(dateStr) ==
    [client_id |-> calClientId, packet_id |-> Null,
     scheduled_date |-> dateStr, status |-> "scheduled"]

\* Jobs.getForCalendar(startDate, endDate): nothing without the backend
getForCalendar(startDate, endDate, fails) ==
    IF ~isAvailable \/ fails THEN {}
    ELSE {j \in JobIds : /\ jobsDb[j] # NoJob
                         /\ jobsDb[j].scheduled_date # NoDate
                         /\ jobsDb[j].scheduled_date >= startDate
                         /\ jobsDb[j].scheduled_date <= endDate
                         /\ jobsDb[j].status # "cancelled"}

\* Calendar.getDateRange() in day view
getDateRange == [startDate |-> calView, endDate |-> calView]

\* Calendar.loadData(): the jobs the calendar shows afterwards
loadData(fails) ==
    getForCalendar(getDateRange.startDate, getDateRange.endDate, fails)

\* Jobs.listLocal(filters): filters on status and clientId only
JobsListLocal(status, clientId) ==
    {j \in JobIds : /\ jobsLs[j] # NoJob
                    /\ (status # Null => jobsLs[j].status = status)
                    /\ (clientId # Null => jobsLs[j].client_id = clientId)}

\* Jobs.list(filters) against the backend
JobsListRemote(status, clientId, startDate, endDate, fails) ==
    IF fails THEN {}
    ELSE {j \in JobIds :
            /\ jobsDb[j] # NoJob
            /\ (status # Null => jobsDb[j].status = status)
            /\ (clientId # Null => jobsDb[j].client_id = clientId)
            /\ (startDate # NoDate =>
                  /\ jobsDb[j].scheduled_date # NoDate
                  /\ jobsDb[j].scheduled_date >= startDate)
            /\ (endDate # NoDate =>
                  /\ jobsDb[j].scheduled_date # NoDate
                  /\ jobsDb[j].scheduled_date <= endDate)}

\* Jobs.list(filters)
JobsList(status, clientId, startDate, endDate, fails) ==
    /\ jobsRet' = JobsRecord("list", TRUE, Null, startDate, endDate,
                     IF ~isAvailable THEN JobsListLocal(status, clientId)
                     ELSE JobsListRemote(status, clientId, startDate,
                                         endDate, fails),
                     FALSE)
    /\ UNCHANGED <<jobsDb, jobsLs, pktClient, calJobs, calView, calClientId>>
    /\ UNCHANGED <<commonVars, notJobs>>

\* A packet is linked to a client, or the link is removed (packets.client_id)
LinkPacketClient(c) ==
    /\ c # pktClient
    /\ isAvailable
    /\ pktClient' = c
    /\ jobsRet' = NoJobsOp
    /\ UNCHANGED <<jobsDb, jobsLs, calJobs, calView, calClientId>>
    /\ UNCHANGED <<commonVars, notJobs>>

\* Jobs.createFromPacket(packetId): needs the backend; getPacket or the
\* insert may fail
JobsCreateFromPacket(fails) ==
    /\ FreeJobIds # {}
    /\ IF isAvailable /\ ~fails
       THEN /\ jobsDb' = [jobsDb EXCEPT ![NewJobId] = packetJobData]
            /\ jobsRet' = JobsRecord("createFromPacket", TRUE, NewJobId,
                                     NoDate, NoDate, {}, FALSE)
       ELSE /\ jobsRet' = JobsRecord("createFromPacket", FALSE, Null,
                                     NoDate, NoDate, {}, FALSE)
            /\ UNCHANGED jobsDb
    /\ UNCHANGED <<jobsLs, pktClient, calJobs, calView, calClientId>>
    /\ UNCHANGED <<commonVars, notJobs>>

\* Calendar.selectClient(id, name, address) / Calendar.createClient(name)
CalendarSelectClient(c) ==
    /\ calClientId # c
    /\ calClientId' = c
    /\ jobsRet' = NoJobsOp
    /\ UNCHANGED <<jobsDb, jobsLs, pktClient, calJobs, calView>>
    /\ UNCHANGED <<commonVars, notJobs>>

\* Calendar.clearClient()
CalendarClearClient ==
    /\ calClientId # Null
    /\ calClientId' = Null
    /\ jobsRet' = NoJobsOp
    /\ UNCHANGED <<jobsDb, jobsLs, pktClient, calJobs, calView>>
    /\ UNCHANGED <<commonVars, notJobs>>

\* Calendar.goToDate(date) / prev() / next(): move the view, then loadData()
CalendarGoToDate(d, fails) ==
    /\ d # calView
    /\ calView' = d
    /\ calJobs' = getForCalendar(d, d, fails)
    /\ jobsRet' = NoJobsOp
    /\ UNCHANGED <<jobsDb, jobsLs, pktClient, calClientId>>
    /\ UNCHANGED <<commonVars, notJobs>>

\* Calendar.saveEvent() for the dialog opened on dateStr, with a title:
\* Jobs.create(eventData) (insert, or createLocal without the backend), and
\* when that returned a job, loadData() to refresh the calendar.
\* createFails: the insert fails; loadFails: the refresh query fails.
CalendarSaveEvent(dateStr, createFails, loadFails) ==
    LET saved == ~isAvailable \/ ~createFails
        db == IF isAvailable /\ ~createFails
              THEN [jobsDb EXCEPT ![NewJobId] = eventData(dateStr)]
              ELSE jobsDb
    IN
    /\ FreeJobIds # {}
    /\ jobsDb' = db
    /\ jobsLs' = IF ~isAvailable
                 THEN [jobsLs EXCEPT ![NewJobId] = eventData(dateStr)]
                 ELSE jobsLs
    /\ calJobs' = IF ~saved THEN calJobs
                  ELSE IF ~isAvailable \/ loadFails THEN {}
                  ELSE {j \in JobIds : /\ db[j] # NoJob
                                       /\ db[j].scheduled_date = calView
                                       /\ db[j].status # "cancelled"}
    /\ jobsRet' = JobsRecord("saveEvent", saved,
                             IF saved THEN NewJobId ELSE Null,
                             NoDate, NoDate, {},
                             saved /\ (~isAvailable \/ ~loadFails))
    /\ UNCHANGED <<pktClient, calView, calClientId>>
    /\ UNCHANGED <<commonVars, notJobs>>

JobsInitState ==
    /\ jobsDb = [j \in JobIds |-> NoJob]
    /\ jobsLs = [j \in JobIds |-> NoJob]
    /\ pktClient = Null
    /\ calJobs = {}
    /\ calView = Today
    /\ calClientId = Null
    /\ jobsRet = NoJobsOp

\* ------------------------------------------------- Jobs and Calendar claims

\* C4: for filters containing startDate and/or endDate, every job returned by
\* Jobs.list(filters) has its scheduled_date within [startDate, endDate], in
\* localStorage-fallback mode as against the backend.
C4_ListHonoursDateFilters ==
    jobsRet.op = "list" =>
        \A j \in jobsRet.listed :
            /\ (jobsRet.startDate # NoDate =>
                  /\ JobOf(j).scheduled_date # NoDate
                  /\ JobOf(j).scheduled_date >= jobsRet.startDate)
            /\ (jobsRet.endDate # NoDate =>
                  /\ JobOf(j).scheduled_date # NoDate
                  /\ JobOf(j).scheduled_date <= jobsRet.endDate)

\* C8, as claimed: every job created via Jobs.createFromPacket or
\* Calendar.saveEvent has a non-null client_id.
C8_EveryJobHasClient ==
    \A j \in AllJobs : JobOf(j).client_id # Null

\* C8, amended: a job created via Jobs.createFromPacket carries the client_id
\* of its packet, and a job created via Calendar.saveEvent carries the client
\* id held by the add-event dialog; either may be null.
C8_ClientComesFromSource ==
    [][\A j \in JobIds :
         (JobOf(j) = NoJob /\ JobOf(j)' # NoJob) =>
             JobOf(j)'.client_id = IF JobOf(j)'.packet_id # Null
                                   THEN pktClient
                                   ELSE calClientId]_vars

\* C8 witness: a job saved from the add-event dialog while a client was
\* selected, and a job created from a packet
C8_Witness ==
    /\ \E j \in AllJobs : /\ JobOf(j).packet_id = Null
                          /\ JobOf(j).client_id \in Clients
    /\ \E j \in AllJobs : JobOf(j).packet_id = JobPacket

\* C10: after Calendar.saveEvent() has stored an event and refreshed the
\* calendar, Calendar.jobs contains the new event when its date is the
\* displayed one, with the backend and with the localStorage fallback.
C10_CalendarShowsNewEvent ==
    (/\ jobsRet.op = "saveEvent"
     /\ jobsRet.ok
     /\ jobsRet.refreshed
     /\ JobOf(jobsRet.job).scheduled_date = calView) =>
        jobsRet.job \in calJobs

\* =========================================================== QuickCapture
MaxBatch == 2
MaxBlobs == 1
MediaTypes == {"photo", "video", "voice"}
Blobs == {"b" \o ToString(i) : i \in 1..MaxBlobs}
\* qcClient: Null when selectedClientData is null; LocalClient when a client
\* is selected whose id is empty (a local-only client); else the client id
LocalClient == "local"

\* A captured item (currentBlob, currentType) and a batch entry { blob, type }
Item(blob, type) == [blob |-> blob, type |-> type]
NoItem == Item(Null, Null)

\* The blobs the dialog still refers to, and the blob of the next capture
UsedBlobs ==
    {qcCurrent.blob} \cup {qcBatch[k].blob : k \in 1..Len(qcBatch)}
        \cup {qcAdds[k].item.blob : k \in 1..Len(qcAdds)}
        \cup {qcSave.items[k].blob : k \in 1..Len(qcSave.items)}
NewBlob ==
    "b" \o ToString(CHOOSE i \in 1..MaxBlobs :
                      /\ ("b" \o ToString(i)) \notin UsedBlobs
                      /\ \A j \in 1..(i - 1) :
                            ("b" \o ToString(j)) \in UsedBlobs)

\* What the last step of the capture dialog did: the operation, the current
\* item when it was called, the entry it pushed (if any), and for a
\* goToTagging() the current item, whether it was in the batch, whether the
\* batch was empty, and whether it refused
BatchRecord(op, by, item, hasPush, pushed, tagging, inBatch, empty, refused) ==
    [op |-> op, by |-> by, item |-> item, hasPush |-> hasPush,
     pushed |-> pushed, tagging |-> tagging, inBatch |-> inBatch,
     wasEmpty |-> empty, refused |-> refused]
NoBatchOp ==
    BatchRecord("none", "none", NoItem, FALSE, NoItem, FALSE, FALSE, FALSE,
                FALSE)

\* goToTagging(): this.batchItems.find(item => item.blob === this.currentBlob)
InBatch(batch, cur) == \E k \in 1..Len(batch) : batch[k].blob = cur.blob

\* QuickCapture.addCurrentToBatch() up to its first await: nothing without a
\* current blob; a photo waits for createThumbnail(); a video or a voice memo
\* is pushed at once
addCurrentToBatch(st, cur, by) ==
    IF cur.blob = Null THEN st
    ELSE IF cur.type = "photo"
    THEN [st EXCEPT !.adds = Append(@, [item |-> cur, by |-> by])]
    ELSE [st EXCEPT !.batch = Append(@, cur)]

\* QuickCapture.goToTagging(): adds a current item that is not in the batch,
\* refuses on an empty batch, else shows step 3
goToTagging(st, cur) ==
    LET a == IF cur.blob # Null /\ ~InBatch(st.batch, cur)
             THEN addCurrentToBatch(st, cur, "goToTagging")
             ELSE st
    IN [batch |-> a.batch, adds |-> a.adds, refused |-> Len(a.batch) = 0]

\* goToTagging() pre-selects the client detected during a voice recording
taggedClient(refused, detected) ==
    IF ~refused /\ qcClient = Null THEN detected ELSE qcClient

\* save() is idle, or suspended at one of its awaits while it handles item i
\* of items; live tells that items is still this.batchItems; callItems /
\* callClient record the batch size and whether a client was selected when
\* save() was last called.
IdleSave == [pc |-> "idle", i |-> 0, items |-> <<>>, live |-> FALSE,
             callItems |-> 0, callClient |-> FALSE]

\* save() has returned
Returned(sv) ==
    [sv EXCEPT !.pc = "idle", !.i = 0, !.items = <<>>, !.live = FALSE]

\* QuickCapture.save(), its entry checks: 'No media to save' and
\* 'Please tag to a client'
canSaveWithoutClientCheck == Len(qcBatch) > 0
canSave == Len(qcBatch) > 0 /\ qcClient # Null

\* save() after the loop: the localStorage write of 'lavaQuickMedia' and
\* step 4; a throwing setItem ends in the catch block
FinishSave(sv, ok) ==
    [save |-> Returned(sv), effect |-> IF ok THEN "lsWrite" ELSE "none",
     step |-> IF ok THEN 4 ELSE qcStep]

RECURSIVE StartItem(_, _, _)
RECURSIVE CreateEntry(_, _, _)
RECURSIVE AfterPush(_, _, _)

\* save(), top of the loop for item sv.i: past the last item the entries are
\* written; a voice item without transcript is transcribed first
StartItem(sv, transcribes, ok) ==
    IF sv.i > Len(sv.items) THEN FinishSave(sv, ok)
    ELSE IF sv.items[sv.i].type = "voice" /\ transcribes
    THEN [save |-> [sv EXCEPT !.pc = "transcribing"], effect |-> "none",
          step |-> qcStep]
    ELSE CreateEntry(sv, transcribes, ok)

\* save(), loop body from the creation of mediaEntry to the next await:
\* reading selectedClientData.name throws when the client was cleared; with
\* the backend the upload starts, without it the blob is encoded; an entry
\* without blob is neither uploaded (item.blob.type throws into the inner
\* catch) nor encoded
CreateEntry(sv, transcribes, ok) ==
    IF qcClient = Null
    THEN [save |-> Returned(sv), effect |-> "none", step |-> qcStep]
    ELSE IF sv.items[sv.i].blob = Null
    THEN AfterPush(sv, transcribes, ok)
    ELSE IF isAvailable
    THEN [save |-> [sv EXCEPT !.pc = "uploading"], effect |-> "upload",
          step |-> qcStep]
    ELSE [save |-> [sv EXCEPT !.pc = "encoding"], effect |-> "none",
          step |-> qcStep]

\* save(), after savedEntries.push(mediaEntry): the delay before the next
\* item while savedCount < totalItems, else the next item at once
AfterPush(sv, transcribes, ok) ==
    IF sv.i < sv.callItems
    THEN [save |-> [sv EXCEPT !.pc = "delay"], effect |-> "none",
          step |-> qcStep]
    ELSE StartItem([sv EXCEPT !.i = @ + 1], transcribes, ok)

\* handleCameraCapture / handleFileSelect (one file) / captureVoice and the
\* recorder's onstop: the captured item becomes the current item, step 2
QCCapture(type) ==
    /\ qcStep = 1
    /\ Blobs \ UsedBlobs # {}
    /\ qcCurrent' = Item(NewBlob, type)
    /\ qcStep' = 2
    /\ qcEffect' = "none"
    /\ qcRet' = NoBatchOp
    /\ UNCHANGED <<qcBatch, qcAdds, qcClient, qcSave>>
    /\ UNCHANGED <<commonVars, notCapture>>

\* QuickCapture.retake()
QCRetake ==
    /\ qcStep = 2
    /\ qcCurrent' = NoItem
    /\ qcStep' = 1
    /\ qcEffect' = "none"
    /\ qcRet' = NoBatchOp
    /\ UNCHANGED <<qcBatch, qcAdds, qcClient, qcSave>>
    /\ UNCHANGED <<commonVars, notCapture>>

\* QuickCapture.addToBatch() ('+ Add More'): addCurrentToBatch() is not
\* awaited, then the current item is reset and step 1 shown
QCAddToBatch ==
    LET a == addCurrentToBatch([batch |-> qcBatch, adds |-> qcAdds],
                               qcCurrent, "addToBatch")
        pushes == Len(a.batch) > Len(qcBatch)
    IN
    /\ qcStep = 2
    /\ Len(a.batch) + Len(a.adds) <= MaxBatch
    /\ qcBatch' = a.batch
    /\ qcAdds' = a.adds
    /\ qcCurrent' = NoItem
    /\ qcStep' = 1
    /\ qcEffect' = "none"
    /\ qcRet' = BatchRecord("addToBatch", "addToBatch", qcCurrent, pushes,
                            IF pushes THEN qcCurrent ELSE NoItem,
                            FALSE, FALSE, FALSE, FALSE)
    /\ UNCHANGED <<qcClient, qcSave>>
    /\ UNCHANGED <<commonVars, notCapture>>

\* QuickCapture.goToTagging() from the 'Continue with n items' button
QCGoToTagging(detected) ==
    LET st == [batch |-> qcBatch, adds |-> qcAdds]
        g == goToTagging(st, qcCurrent)
    IN
    /\ qcStep = 1
    /\ Len(g.batch) + Len(g.adds) <= MaxBatch
    /\ qcBatch' = g.batch
    /\ qcAdds' = g.adds
    /\ qcStep' = IF g.refused THEN qcStep ELSE 3
    /\ qcClient' = taggedClient(g.refused, detected)
    /\ qcEffect' = "none"
    /\ qcRet' = BatchRecord("goToTagging", "goToTagging", qcCurrent, FALSE,
                            NoItem, TRUE, InBatch(qcBatch, qcCurrent),
                            Len(qcBatch) = 0, g.refused)
    /\ UNCHANGED <<qcCurrent, qcSave>>
    /\ UNCHANGED <<commonVars, notCapture>>

\* QuickCapture.addAndContinue() ('Done'): addCurrentToBatch() is not
\* awaited, then goToTagging() runs
QCAddAndContinue(detected) ==
    LET a == addCurrentToBatch([batch |-> qcBatch, adds |-> qcAdds],
                               qcCurrent, "addAndContinue")
        g == goToTagging(a, qcCurrent)
        pushes == Len(g.batch) > Len(qcBatch)
    IN
    /\ qcStep = 2
    /\ Len(g.batch) + Len(g.adds) <= MaxBatch
    /\ qcBatch' = g.batch
    /\ qcAdds' = g.adds
    /\ qcStep' = IF g.refused THEN qcStep ELSE 3
    /\ qcClient' = taggedClient(g.refused, detected)
    /\ qcEffect' = "none"
    /\ qcRet' = BatchRecord("addAndContinue", "addAndContinue", qcCurrent,
                            pushes, IF pushes THEN qcCurrent ELSE NoItem,
                            TRUE, InBatch(a.batch, qcCurrent),
                            Len(a.batch) = 0, g.refused)
    /\ UNCHANGED <<qcCurrent, qcSave>>
    /\ UNCHANGED <<commonVars, notCapture>>

\* addCurrentToBatch() after 'await this.createThumbnail(...)': the entry is
\* built from this.currentBlob and this.currentType as they are now; a
\* running save() iterates over the same array
QCThumbnailReturn(k) ==
    /\ k \in 1..Len(qcAdds)
    /\ qcBatch' = Append(qcBatch, qcCurrent)
    /\ qcAdds' = [j \in 1..(Len(qcAdds) - 1) |->
                    IF j < k THEN qcAdds[j] ELSE qcAdds[j + 1]]
    /\ qcSave' = IF qcSave.pc # "idle" /\ qcSave.live
                 THEN [qcSave EXCEPT !.items = Append(@, qcCurrent)]
                 ELSE qcSave
    /\ qcEffect' = "none"
    /\ qcRet' = BatchRecord("push", qcAdds[k].by, qcAdds[k].item, TRUE,
                            qcCurrent, FALSE, FALSE, FALSE, FALSE)
    /\ UNCHANGED <<qcCurrent, qcStep, qcClient>>
    /\ UNCHANGED <<commonVars, notCapture>>

\* QuickCapture.removeBatchItem(index) (batch preview of step 1)
QCRemoveBatchItem(index) ==
    /\ qcStep = 1
    /\ index \in 1..Len(qcBatch)
    /\ qcBatch' = [k \in 1..(Len(qcBatch) - 1) |->
                     IF k < index THEN qcBatch[k] ELSE qcBatch[k + 1]]
    /\ qcSave' = IF qcSave.pc # "idle" /\ qcSave.live
                 THEN [qcSave EXCEPT !.items = qcBatch']
                 ELSE qcSave
    /\ qcEffect' = "none"
    /\ qcRet' = NoBatchOp
    /\ UNCHANGED <<qcCurrent, qcAdds, qcStep, qcClient>>
    /\ UNCHANGED <<commonVars, notCapture>>

\* QuickCapture.selectClient(id, name, address) (step 3)
QCSelectClient(c) ==
    /\ qcStep = 3
    /\ qcClient # c
    /\ qcClient' = c
    /\ qcEffect' = "none"
    /\ qcRet' = NoBatchOp
    /\ UNCHANGED <<qcBatch, qcCurrent, qcAdds, qcStep, qcSave>>
    /\ UNCHANGED <<commonVars, notCapture>>

\* QuickCapture.clearClient() (step 3)
QCClearClient ==
    /\ qcStep = 3
    /\ qcClient # Null
    /\ qcClient' = Null
    /\ qcEffect' = "none"
    /\ qcRet' = NoBatchOp
    /\ UNCHANGED <<qcBatch, qcCurrent, qcAdds, qcStep, qcSave>>
    /\ UNCHANGED <<commonVars, notCapture>>

\* QuickCapture.close() -> reset(), and the next open(): a running save()
\* keeps the array it iterates over, a suspended addCurrentToBatch() will
\* push to the new one
QCClose ==
    /\ (qcBatch # <<>> \/ qcClient # Null \/ qcCurrent # NoItem
        \/ qcStep # 1)
    /\ qcBatch' = <<>>
    /\ qcCurrent' = NoItem
    /\ qcClient' = Null
    /\ qcStep' = 1
    /\ qcSave' = [qcSave EXCEPT !.live = FALSE]
    /\ qcEffect' = "none"
    /\ qcRet' = NoBatchOp
    /\ UNCHANGED qcAdds
    /\ UNCHANGED <<commonVars, notCapture>>

\* QuickCapture.save() from the call to its first await (step 3; the save
\* button is disabled while it runs)
QCSaveCall(transcribes, ok) ==
    LET sv == [pc |-> "item", i |-> 1, items |-> qcBatch, live |-> TRUE,
               callItems |-> Len(qcBatch), callClient |-> qcClient # Null]
        r == StartItem(sv, transcribes, ok)
    IN
    /\ qcStep = 3
    /\ qcSave.pc = "idle"
    /\ IF canSave
       THEN qcSave' = r.save /\ qcEffect' = r.effect /\ qcStep' = r.step
       ELSE qcSave' = Returned(sv) /\ qcEffect' = "none" /\ qcStep' = qcStep
    /\ qcRet' = NoBatchOp
    /\ UNCHANGED <<qcBatch, qcCurrent, qcAdds, qcClient>>
    /\ UNCHANGED <<commonVars, notCapture>>

\* save(): Transcribe.transcribe(item.blob) returned or threw
QCTranscribeReturn(ok) ==
    LET r == CreateEntry(qcSave, FALSE, ok) IN
    /\ qcSave.pc = "transcribing"
    /\ qcSave' = r.save
    /\ qcEffect' = r.effect
    /\ qcStep' = r.step
    /\ qcRet' = NoBatchOp
    /\ UNCHANGED <<qcBatch, qcCurrent, qcAdds, qcClient>>
    /\ UNCHANGED <<commonVars, notCapture>>

\* save(): the storage upload returned; without error and with a client id
\* the row is inserted into the media table, with an error the blob is
\* encoded for the local copy
QCUploadReturn(error, transcribes, ok) ==
    LET r == IF error
             THEN [save |-> [qcSave EXCEPT !.pc = "encoding"],
                   effect |-> "none", step |-> qcStep]
             ELSE IF qcClient \notin {Null, LocalClient}
             THEN [save |-> [qcSave EXCEPT !.pc = "inserting"],
                   effect |-> "insert", step |-> qcStep]
             ELSE AfterPush(qcSave, transcribes, ok)
    IN
    /\ qcSave.pc = "uploading"
    /\ qcSave' = r.save
    /\ qcEffect' = r.effect
    /\ qcStep' = r.step
    /\ qcRet' = NoBatchOp
    /\ UNCHANGED <<qcBatch, qcCurrent, qcAdds, qcClient>>
    /\ UNCHANGED <<commonVars, notCapture>>

\* save(): the insert into the media table returned, or blobToBase64 did
QCAwaitReturn(transcribes, ok) ==
    LET r == AfterPush(qcSave, transcribes, ok) IN
    /\ qcSave.pc \in {"inserting", "encoding"}
    /\ qcSave' = r.save
    /\ qcEffect' = r.effect
    /\ qcStep' = r.step
    /\ qcRet' = NoBatchOp
    /\ UNCHANGED <<qcBatch, qcCurrent, qcAdds, qcClient>>
    /\ UNCHANGED <<commonVars, notCapture>>

\* save(): the delay between two items is over
QCDelayReturn(transcribes, ok) ==
    LET r == StartItem([qcSave EXCEPT !.pc = "item", !.i = @ + 1],
                       transcribes, ok)
    IN
    /\ qcSave.pc = "delay"
    /\ qcSave' = r.save
    /\ qcEffect' = r.effect
    /\ qcStep' = r.step
    /\ qcRet' = NoBatchOp
    /\ UNCHANGED <<qcBatch, qcCurrent, qcAdds, qcClient>>
    /\ UNCHANGED <<commonVars, notCapture>>

CaptureInitState ==
    /\ qcBatch = <<>>
    /\ qcCurrent = NoItem
    /\ qcAdds = <<>>
    /\ qcStep = 1
    /\ qcClient = Null
    /\ qcSave = IdleSave
    /\ qcEffect = "none"
    /\ qcRet = NoBatchOp

\* ----------------------------------------------------- QuickCapture claims

\* C5, as claimed: whenever save() performs a storage upload, a media-table
\* insert or a write of 'lavaQuickMedia', the batch contains at least one
\* item and a client is selected.
C5_WritesOnlyWhileTagged ==
    qcEffect # "none" => (Len(qcBatch) > 0 /\ qcClient # Null)

\* C5, amended: save() performs a storage upload, a media-table insert or a
\* write of 'lavaQuickMedia' only if the batch contained at least one item
\* and a client was selected when save() was called.
C5_WritesOnlyIfTaggedAtCall ==
    qcEffect # "none" => (qcSave.callItems > 0 /\ qcSave.callClient)

\* save() writes 'lavaQuickMedia' although the client was cleared while it
\* was running
C5_Witness ==
    /\ qcEffect = "lsWrite"
    /\ qcClient = Null
    /\ qcSave.callItems > 0
    /\ qcSave.callClient

\* C11: the entry that an addToBatch() call pushes to the batch, at once or
\* after its thumbnail was made, has the blob and the type of the item that
\* was the current item when addToBatch() was called.
C11_AddToBatchAddsCurrentItem ==
    (qcRet.by = "addToBatch" /\ qcRet.hasPush) => qcRet.pushed = qcRet.item

\* C12: a goToTagging() that runs with a current item that is not in the
\* batch ends in step 3, and goToTagging() refuses only when there is neither
\* a current item nor a batch item.
C12_TaggingAcceptsCurrentItem ==
    qcRet.tagging =>
        /\ (qcRet.item # NoItem /\ ~qcRet.inBatch) =>
               (~qcRet.refused /\ qcStep = 3)
        /\ qcRet.refused => (qcRet.item = NoItem /\ qcRet.wasEmpty)

\* C13: no captured item appears twice in batchItems.
C13_NoItemTwiceInBatch ==
    \A j, k \in 1..Len(qcBatch) :
        (j # k /\ qcBatch[j].blob # Null) => qcBatch[j].blob # qcBatch[k].blob

\* =========================================================== Packet photos
MaxSlots == 2
PhotoSlots == {"img" \o ToString(i) : i \in 1..MaxSlots}

PhotoRecord(op, id, ret) == [op |-> op, id |-> id, ret |-> ret]
NoPhotoOp == PhotoRecord("none", Null, FALSE)

\* The objects / rows that belong to packet id
ObjectsOf(id) == {o \in phObjects : o[1] = id}
RowsOf(id) == {r \in phRows : r[1] = id}

\* SupabaseClient.deletePacketPhotos(packetId): the objects that remain.
\* A failing list() leaves the list empty or throws into the catch block, the
\* error of remove() is not looked at.
deletePacketPhotos(id, listFails, removeFails) ==
    IF listFails \/ removeFails THEN phObjects ELSE phObjects \ ObjectsOf(id)

\* SupabaseClient.savePacket(packetData) without id: a new row
PacketInsert(d, fails) ==
    LET result == savePacket(Null, fails) IN
    /\ isAvailable
    /\ dbPackets' = IF result # Null
                    THEN [dbPackets EXCEPT ![result] = d]
                    ELSE dbPackets
    /\ phRet' = PhotoRecord("savePacket", result, result # Null)
    /\ UNCHANGED <<phObjects, phRows>>
    /\ UNCHANGED <<commonVars, notPhotos>>

\* Photos.uploadToSupabase(imgId, blob) for packet id: uploadPhoto() stores
\* the object packets/<id>/<imgId>.webp, then savePacketPhoto() upserts the
\* row, which the foreign key rejects when the packet row is missing
PhotoUpload(id, imgId, uploadFails, rowFails) ==
    /\ isAvailable
    /\ phObjects' = IF uploadFails THEN phObjects
                    ELSE phObjects \cup {<<id, imgId>>}
    /\ phRows' = IF uploadFails \/ rowFails \/ dbPackets[id] = NoData
                 THEN phRows
                 ELSE phRows \cup {<<id, imgId>>}
    /\ phRet' = PhotoRecord("uploadPhoto", id, ~uploadFails)
    /\ UNCHANGED dbPackets
    /\ UNCHANGED <<commonVars, notPhotos>>

\* SupabaseClient.deletePacket(id); packet_photos has ON DELETE CASCADE
DeletePacket(id, listFails, removeFails, deleteFails) ==
    /\ IF ~isAvailable
       THEN /\ phRet' = PhotoRecord("deletePacket", id, FALSE)
            /\ UNCHANGED <<dbPackets, phObjects, phRows>>
       ELSE /\ phObjects' = deletePacketPhotos(id, listFails, removeFails)
            /\ IF deleteFails
               THEN UNCHANGED <<dbPackets, phRows>>
               ELSE /\ dbPackets' = [dbPackets EXCEPT ![id] = NoData]
                    /\ phRows' = phRows \ RowsOf(id)
            /\ phRet' = PhotoRecord("deletePacket", id, ~deleteFails)
    /\ UNCHANGED <<commonVars, notPhotos>>

PhotoInitState ==
    /\ phObjects = {}
    /\ phRows = {}
    /\ phRet = NoPhotoOp

\* ---------------------------------------------------- Packet photo claims

\* C6: after deletePacket(id) has returned true the packet row is gone, no
\* object remains in storage under packets/<id>/ and no packet_photos row
\* references the packet.
C6_DeleteLeavesNothingBehind ==
    (phRet.op = "deletePacket" /\ phRet.ret) =>
        /\ dbPackets[phRet.id] = NoData
        /\ ObjectsOf(phRet.id) = {}
        /\ RowsOf(phRet.id) = {}

\* ============================================================== Transcribe
Routes == {"fallback", "edge", "direct"}
NoRoute == [route |-> "none", urlConfigured |-> FALSE]

\* Transcribe.isAvailable()
transcribeAvailable == apiKey # Null \/ edgeFunctionUrl # Null

\* The page sets window.OPENAI_API_KEY
ConfigureWindowKey ==
    /\ ~winKey
    /\ winKey' = TRUE
    /\ UNCHANGED <<winUrl, metaKey, metaUrl, apiKey, edgeFunctionUrl, trRet>>
    /\ UNCHANGED <<commonVars, notTranscribe>>

\* The page sets window.TRANSCRIBE_FUNCTION_URL
ConfigureWindowUrl ==
    /\ ~winUrl
    /\ winUrl' = TRUE
    /\ UNCHANGED <<winKey, metaKey, metaUrl, apiKey, edgeFunctionUrl, trRet>>
    /\ UNCHANGED <<commonVars, notTranscribe>>

\* The page carries the meta tag openai-api-key
ConfigureMetaKey ==
    /\ ~metaKey
    /\ metaKey' = TRUE
    /\ UNCHANGED <<winKey, winUrl, metaUrl, apiKey, edgeFunctionUrl, trRet>>
    /\ UNCHANGED <<commonVars, notTranscribe>>

\* The page carries the meta tag transcribe-function-url
ConfigureMetaUrl ==
    /\ ~metaUrl
    /\ metaUrl' = TRUE
    /\ UNCHANGED <<winKey, winUrl, metaKey, apiKey, edgeFunctionUrl, trRet>>
    /\ UNCHANGED <<commonVars, notTranscribe>>

\* Transcribe.init(config): the page is read only when neither the key nor
\* the url is set after the config was applied
readsPage(key, url) == key = Null /\ url = Null

\* Transcribe.init(config), config = { apiKey } and / or { edgeFunctionUrl }
TranscribeInit(cfgKey, cfgUrl) ==
    LET key == IF cfgKey THEN "config" ELSE apiKey
        url == IF cfgUrl THEN "config" ELSE edgeFunctionUrl
    IN
    /\ IF readsPage(key, url)
       THEN /\ apiKey' = IF winKey THEN "window"
                         ELSE IF metaKey THEN "meta" ELSE key
            /\ edgeFunctionUrl' = IF winUrl THEN "window"
                                  ELSE IF metaUrl THEN "meta" ELSE url
       ELSE /\ apiKey' = key
            /\ edgeFunctionUrl' = url
    /\ UNCHANGED <<winKey, winUrl, metaKey, metaUrl, trRet>>
    /\ UNCHANGED <<commonVars, notTranscribe>>

\* Transcribe.transcribe(audioBlob): the route taken
TranscribeCall ==
    /\ trRet' = [route |-> IF ~transcribeAvailable THEN "fallback"
                           ELSE IF edgeFunctionUrl # Null THEN "edge"
                           ELSE "direct",
                 urlConfigured |-> winUrl]
    /\ UNCHANGED <<winKey, winUrl, metaKey, metaUrl, apiKey, edgeFunctionUrl>>
    /\ UNCHANGED <<commonVars, notTranscribe>>

TranscribeInitState ==
    /\ winKey = FALSE
    /\ winUrl = FALSE
    /\ metaKey = FALSE
    /\ metaUrl = FALSE
    /\ apiKey = Null
    /\ edgeFunctionUrl = Null
    /\ trRet = NoRoute

\* ------------------------------------------------------- Transcribe claims

\* C7: a transcribe() call made while window.TRANSCRIBE_FUNCTION_URL is
\* configured never goes directly to the OpenAI API.
C7_NoDirectCallOnceUrlConfigured ==
    trRet.route = "direct" => ~trRet.urlConfigured

\* =============================================================== Signature
SignatureRecord(op, packetId, ret, failed) ==
    [op |-> op, packetId |-> packetId, ret |-> ret, failed |-> failed]
NoSignatureOp == SignatureRecord("none", Null, FALSE, FALSE)

\* Signature.getForPacket(packetId): whether a signature is found
getForPacket(packetId, fails) ==
    IF ~isAvailable THEN FALSE
    ELSE IF fails THEN FALSE
    ELSE packetId \in sigDb

\* The user draws on the signature pad
SignatureDraw ==
    /\ sigEmpty
    /\ sigEmpty' = FALSE
    /\ sigRet' = NoSignatureOp
    /\ UNCHANGED <<sigDb, sigLs, sigSaved>>
    /\ UNCHANGED <<commonVars, notSignature>>

\* Signature.clear()
SignatureClear ==
    /\ ~sigEmpty
    /\ sigEmpty' = TRUE
    /\ sigRet' = NoSignatureOp
    /\ UNCHANGED <<sigDb, sigLs, sigSaved>>
    /\ UNCHANGED <<commonVars, notSignature>>

\* Signature.save({ packetId }): throws on an empty pad and on a failing
\* insert, else returns the saved signature
SignatureSave(packetId, fails) ==
    /\ IF sigEmpty
       THEN /\ sigRet' = SignatureRecord("save", packetId, FALSE, TRUE)
            /\ UNCHANGED <<sigDb, sigLs, sigSaved>>
       ELSE IF ~isAvailable
       THEN /\ sigLs' = sigLs \cup {packetId}
            /\ sigSaved' = sigSaved \cup {packetId}
            /\ sigRet' = SignatureRecord("save", packetId, TRUE, FALSE)
            /\ UNCHANGED sigDb
       ELSE IF fails
       THEN /\ sigRet' = SignatureRecord("save", packetId, FALSE, TRUE)
            /\ UNCHANGED <<sigDb, sigLs, sigSaved>>
       ELSE /\ sigDb' = sigDb \cup {packetId}
            /\ sigSaved' = sigSaved \cup {packetId}
            /\ sigRet' = SignatureRecord("save", packetId, TRUE, FALSE)
            /\ UNCHANGED sigLs
    /\ UNCHANGED sigEmpty
    /\ UNCHANGED <<commonVars, notSignature>>

\* Signature.isPacketSigned(packetId)
SignatureIsPacketSigned(packetId, fails) ==
    /\ sigRet' = SignatureRecord("isPacketSigned", packetId,
                                 getForPacket(packetId, fails),
                                 isAvailable /\ fails)
    /\ UNCHANGED <<sigEmpty, sigDb, sigLs, sigSaved>>
    /\ UNCHANGED <<commonVars, notSignature>>

SignatureInitState ==
    /\ sigEmpty = TRUE
    /\ sigDb = {}
    /\ sigLs = {}
    /\ sigSaved = {}
    /\ sigRet = NoSignatureOp

\* -------------------------------------------------------- Signature claims

\* C9: once Signature.save({ packetId: P }) has returned, an
\* isPacketSigned(P) whose query does not fail answers true, with the
\* backend and with the localStorage fallback.
C9_SavedPacketIsSigned ==
    (/\ sigRet.op = "isPacketSigned"
     /\ sigRet.packetId \in sigSaved
     /\ ~sigRet.failed) => sigRet.ret

\* ==================================================================== Auth
\* Auth.fallbackPassword, and the literal in SupabaseClient.checkPassword
fallbackPassword == "lavaroofing"
Passwords == {fallbackPassword, "secret", "guess"}

\* The last Auth.checkPassword(): the password typed, the stored password
\* at that time, whether Supabase was available, and whether it unlocked
AuthRecord(op, password, stored, available, valid) ==
    [op |-> op, password |-> password, stored |-> stored,
     available |-> available, valid |-> valid]

\* SupabaseClient.checkPassword(password): without the client, and when the
\* query of the settings table fails, the hard-coded password decides
checkPassword(password, fails) ==
    IF ~isAvailable THEN password = fallbackPassword
    ELSE IF fails THEN password = fallbackPassword
    ELSE appPassword = password

\* An administrator changes the settings row 'app_password'
SettingsSetPassword(password) ==
    /\ password # appPassword
    /\ appPassword' = password
    /\ UNCHANGED <<authSession, authUnlocked, authRet>>
    /\ UNCHANGED <<commonVars, notAuth>>

\* The page is loaded and Auth.init() runs: it unlocks when the session is
\* authenticated, else the password screen stays
AuthInit ==
    /\ authUnlocked' = authSession
    /\ UNCHANGED <<appPassword, authSession, authRet>>
    /\ UNCHANGED <<commonVars, notAuth>>

\* sessionStorage 'lavaAuth' is removed (the session ends, or the user
\* clears the site data); the page that is open stays as it is
AuthSessionEnd ==
    /\ authSession
    /\ authSession' = FALSE
    /\ UNCHANGED <<appPassword, authUnlocked, authRet>>
    /\ UNCHANGED <<commonVars, notAuth>>

\* Auth.checkPassword() with the password typed into the password screen
AuthCheckPassword(password, fails) ==
    LET isValid == IF isAvailable THEN checkPassword(password, fails)
                   ELSE password = fallbackPassword
    IN
    /\ ~authUnlocked
    /\ authUnlocked' = isValid
    /\ authSession' = (authSession \/ isValid)
    /\ authRet' = AuthRecord("checkPassword", password, appPassword,
                             isAvailable, isValid)
    /\ UNCHANGED appPassword
    /\ UNCHANGED <<commonVars, notAuth>>

AuthInitState ==
    /\ appPassword = fallbackPassword
    /\ authSession = FALSE
    /\ authUnlocked = FALSE
    /\ authRet = AuthRecord("none", Null, Null, FALSE, FALSE)

\* ------------------------------------------------------------- Auth claims

\* C16: while SupabaseClient.isAvailable() is true, Auth.checkPassword()
\* unlocks the portal only for a password equal to the app_password value
\* stored in the settings table.
C16_UnlockOnlyWithStoredPassword ==
    (authRet.op = "checkPassword" /\ authRet.available /\ authRet.valid) =>
        authRet.password = authRet.stored

\* =================================================================== Voice
MaxRecorders == 2
MaxStarts == 2
RecorderIds == {ToString(i) : i \in 1..MaxRecorders}

\* What the last call or event of the recorder did; ok: the call was
\* accepted, the promise of stopRecording() was resolved
VoiceRecord(op, ok) == [op |-> op, ok |-> ok]

\* new MediaRecorder(stream): an object that no reference or event holds
FreeRecorders ==
    {ToString(i) : i \in {j \in 1..MaxRecorders :
        /\ ToString(j) \notin (voRecorders \cup voStreams \cup voStopping)
        /\ ToString(j) # voMediaRecorder}}
NewRecorder ==
    ToString(CHOOSE i \in 1..MaxRecorders :
        /\ ToString(i) \in FreeRecorders
        /\ \A j \in 1..MaxRecorders : ToString(j) \in FreeRecorders => i <= j)

\* Voice.startRecording() up to its await: it is refused while isRecording
\* is set, else it asks for the microphone and waits
VoiceStartRecording ==
    /\ IF voIsRecording
       THEN /\ voiceRet' = VoiceRecord("start", FALSE)
            /\ UNCHANGED voStarts
       ELSE /\ voStarts < MaxStarts
            /\ voStarts' = voStarts + 1
            /\ voiceRet' = VoiceRecord("start", TRUE)
    /\ UNCHANGED <<voIsRecording, voMediaRecorder, voRecorders, voStreams,
                   voStopping>>
    /\ UNCHANGED <<commonVars, notVoice>>

\* getUserMedia() settles and a startRecording() resumes: with a stream it
\* creates and starts a MediaRecorder and only then sets isRecording
VoiceGetUserMediaReturn(ok) ==
    /\ voStarts > 0
    /\ voStarts' = voStarts - 1
    /\ IF ok
       THEN /\ FreeRecorders # {}
            /\ voMediaRecorder' = NewRecorder
            /\ voRecorders' = voRecorders \cup {NewRecorder}
            /\ voStreams' = voStreams \cup {NewRecorder}
            /\ voIsRecording' = TRUE
            /\ voiceRet' = VoiceRecord("started", TRUE)
       ELSE /\ voiceRet' = VoiceRecord("startFailed", FALSE)
            /\ UNCHANGED <<voIsRecording, voMediaRecorder, voRecorders,
                           voStreams>>
    /\ UNCHANGED voStopping
    /\ UNCHANGED <<commonVars, notVoice>>

\* A MediaRecorder that records stops by itself (an encoder error, the
\* microphone is unplugged): no handler is installed while it records
VoiceRecorderEnds(r) ==
    /\ r \in voRecorders
    /\ voRecorders' = voRecorders \ {r}
    /\ voiceRet' = VoiceRecord("recorderEnded", FALSE)
    /\ UNCHANGED <<voIsRecording, voMediaRecorder, voStreams, voStarts,
                   voStopping>>
    /\ UNCHANGED <<commonVars, notVoice>>

\* Voice.stopRecording(): refused when not recording; else it installs
\* onstop and onerror and calls mediaRecorder.stop(), which throws on a
\* recorder that is not recording (the promise is rejected at once)
VoiceStopRecording ==
    /\ IF ~voIsRecording \/ voMediaRecorder = Null
       THEN /\ voiceRet' = VoiceRecord("stop", FALSE)
            /\ UNCHANGED <<voRecorders, voStopping>>
       ELSE IF voMediaRecorder \notin voRecorders
       THEN /\ voiceRet' = VoiceRecord("stopSettled", FALSE)
            /\ UNCHANGED <<voRecorders, voStopping>>
       ELSE /\ voRecorders' = voRecorders \ {voMediaRecorder}
            /\ voStopping' = voStopping \cup {voMediaRecorder}
            /\ voiceRet' = VoiceRecord("stop", TRUE)
    /\ UNCHANGED <<voIsRecording, voMediaRecorder, voStreams, voStarts>>
    /\ UNCHANGED <<commonVars, notVoice>>

\* The stop event of recorder r: the onstop handler stops the tracks of
\* this.mediaRecorder as it is now, resets the recorder and resolves; with
\* this.mediaRecorder null it throws before it resets anything
VoiceOnStop(r) ==
    /\ r \in voStopping
    /\ voStopping' = voStopping \ {r}
    /\ IF voMediaRecorder = Null
       THEN /\ voiceRet' = VoiceRecord("stopHandlerThrew", FALSE)
            /\ UNCHANGED <<voIsRecording, voMediaRecorder, voRecorders,
                           voStreams>>
       ELSE /\ voStreams' = voStreams \ {voMediaRecorder}
            /\ voRecorders' = voRecorders \ {voMediaRecorder}
            /\ voIsRecording' = FALSE
            /\ voMediaRecorder' = Null
            /\ voiceRet' = VoiceRecord("stopSettled", TRUE)
    /\ UNCHANGED voStarts
    /\ UNCHANGED <<commonVars, notVoice>>

\* The error event of recorder r after stop(): the onerror handler only
\* rejects; the browser may or may not fire the stop event after it
VoiceOnError(r, stopFollows) ==
    /\ r \in voStopping
    /\ voStopping' = IF stopFollows THEN voStopping ELSE voStopping \ {r}
    /\ voiceRet' = VoiceRecord("stopSettled", FALSE)
    /\ UNCHANGED <<voIsRecording, voMediaRecorder, voRecorders, voStreams,
                   voStarts>>
    /\ UNCHANGED <<commonVars, notVoice>>

\* Voice.cancelRecording(): with a recorder and isRecording it stops the
\* tracks (which ends the recorder) and resets; else it does nothing
VoiceCancelRecording ==
    /\ IF voMediaRecorder # Null /\ voIsRecording
       THEN /\ voStreams' = voStreams \ {voMediaRecorder}
            /\ voRecorders' = voRecorders \ {voMediaRecorder}
            /\ voMediaRecorder' = Null
            /\ voIsRecording' = FALSE
       ELSE UNCHANGED <<voIsRecording, voMediaRecorder, voRecorders,
                        voStreams>>
    /\ voiceRet' = VoiceRecord("cancel", TRUE)
    /\ UNCHANGED <<voStarts, voStopping>>
    /\ UNCHANGED <<commonVars, notVoice>>

VoiceInitState ==
    /\ voIsRecording = FALSE
    /\ voMediaRecorder = Null
    /\ voRecorders = {}
    /\ voStreams = {}
    /\ voStarts = 0
    /\ voStopping = {}
    /\ voiceRet = VoiceRecord("none", FALSE)

\* ------------------------------------------------------------ Voice claims

\* C17: for any interleaving of startRecording() calls at most one
\* MediaRecorder and at most one microphone stream is active at any time.
C17_AtMostOneRecorderActive ==
    Cardinality(voRecorders) <= 1 /\ Cardinality(voStreams) <= 1

\* C18: once an accepted stopRecording() has settled (resolved or rejected,
\* no event of it outstanding) or cancelRecording() has run, isRecording is
\* false, so that the next startRecording() is accepted.
C18_RecorderReturnsToIdle ==
    (voiceRet.op \in {"stopSettled", "cancel"} /\ voStopping = {}) =>
        ~voIsRecording

\* ========================================================= AI assistant
MaxWords == 3

\* Text is a sequence of characters, so that String.includes() and the
\* regular expression of the parser are computed on the characters
UpperCase == <<"A", "B", "C", "D", "E", "F", "G", "H", "I", "J", "K", "L",
               "M", "N", "O", "P", "Q", "R", "S", "T", "U", "V", "W", "X",
               "Y", "Z">>
LowerCase == <<"a", "b", "c", "d", "e", "f", "g", "h", "i", "j", "k", "l",
               "m", "n", "o", "p", "q", "r", "s", "t", "u", "v", "w", "x",
               "y", "z">>
Letters == {LowerCase[i] : i \in 1..26}

toLowerChar(c) ==
    IF \E i \in 1..26 : UpperCase[i] = c
    THEN LowerCase[CHOOSE i \in 1..26 : UpperCase[i] = c]
    ELSE c
toLowerCase(s) == [i \in 1..Len(s) |-> toLowerChar(s[i])]

\* The literals of parseLocalIntent
Keyword ==
    [calendar |-> <<"c", "a", "l", "e", "n", "d", "a", "r">>,
     schedule |-> <<"s", "c", "h", "e", "d", "u", "l", "e">>,
     dashboard |-> <<"d", "a", "s", "h", "b", "o", "a", "r", "d">>,
     home |-> <<"h", "o", "m", "e">>,
     packet |-> <<"p", "a", "c", "k", "e", "t">>,
     show |-> <<"s", "h", "o", "w">>,
     go |-> <<"g", "o">>,
     open |-> <<"o", "p", "e", "n">>,
     client |-> <<"c", "l", "i", "e", "n", "t">>,
     list |-> <<"l", "i", "s", "t">>,
     all |-> <<"a", "l", "l">>,
     job |-> <<"j", "o", "b">>,
     photo |-> <<"p", "h", "o", "t", "o">>,
     picture |-> <<"p", "i", "c", "t", "u", "r", "e">>,
     video |-> <<"v", "i", "d", "e", "o">>,
     recordVideo |-> <<"r", "e", "c", "o", "r", "d", " ", "v", "i", "d", "e", "o">>,
     voice |-> <<"v", "o", "i", "c", "e">>,
     voiceNote |-> <<"v", "o", "i", "c", "e", " ", "n", "o", "t", "e">>,
     memo |-> <<"m", "e", "m", "o">>,
     info |-> <<"i", "n", "f", "o">>,
     find |-> <<"f", "i", "n", "d">>,
     lookUp |-> <<"l", "o", "o", "k", " ", "u", "p">>,
     showMe |-> <<"s", "h", "o", "w", " ", "m", "e">>,
     about |-> <<"a", "b", "o", "u", "t">>,
     on |-> <<"o", "n">>,
     for |-> <<"f", "o", "r">>,
     the |-> <<"t", "h", "e">>,
     today |-> <<"t", "o", "d", "a", "y">>,
     jobs |-> <<"j", "o", "b", "s">>]

\* The words a command is made of; 'Show me today's schedule' is the
\* first suggestion of the assistant's panel
Words == {<<"S", "h", "o", "w">>,
          <<"m", "e">>,
          <<"t", "o", "d", "a", "y", "'", "s">>,
          <<"s", "c", "h", "e", "d", "u", "l", "e">>,
          <<"j", "o", "b", "s">>,
          <<"f", "i", "n", "d">>,
          <<"j", "o", "h", "n", "s", "o", "n">>}

RECURSIVE JoinWords(_)
JoinWords(ws) ==
    IF Len(ws) = 1 THEN ws[1]
    ELSE ws[1] \o <<" ">> \o JoinWords(Tail(ws))

\* The clients that preloadData() may find, by name
AIClientNames == {<<"J", "o", "h", "n", "s", "o", "n">>}

\* An intent; the confidence in hundredths
Intent(action, target, query, type, clientId, confidence) ==
    [action |-> action, target |-> target, query |-> query, type |-> type,
     clientId |-> clientId, confidence |-> confidence]
NoIntent == Intent("null", Null, <<>>, Null, <<>>, 0)
UnknownIntent == Intent("unknown", Null, <<>>, Null, <<>>, 50)
ScheduleIntent == Intent("schedule", "job", Keyword.today, Null, <<>>, 90)

\* What the OpenAI request of parseIntent may give: nothing usable, or an
\* intent
AIReplies == {NoIntent, Intent("create", "packet", <<>>, Null, <<>>, 90)}

\* s.includes(k)
At(s, i, k) ==
    /\ i + Len(k) - 1 <= Len(s)
    /\ SubSeq(s, i, i + Len(k) - 1) = k
includes(s, k) == \E i \in 1..Len(s) : At(s, i, k)

\* The end of a run of blanks, of letters, that starts at i
AfterSpaces(s, i) ==
    CHOOSE j \in i..(Len(s) + 1) :
        /\ \A k \in i..(j - 1) : s[k] = " "
        /\ (j = Len(s) + 1 \/ s[j] # " ")
AfterLetters(s, i) ==
    CHOOSE j \in i..(Len(s) + 1) :
        /\ \A k \in i..(j - 1) : s[k] \in Letters
        /\ (j = Len(s) + 1 \/ s[j] \notin Letters)

\* The regular expression of parseLocalIntent:
\* (?:info|find|look up|show me|about|on|for)\s+(?:the\s+)?
\* ([a-z]+(?:\s+[a-z]+)?)
Triggers ==
    {Keyword.info, Keyword.find, Keyword.lookUp, Keyword.showMe,
     Keyword.about, Keyword.on, Keyword.for}

\* Where the captured name starts when the trigger ends before a and the
\* blanks after it before p: at p, or behind 'the' and its blanks
NameStartAt(s, a, p) ==
    IF ~(p > a /\ p <= Len(s) /\ s[p] \in Letters) THEN 0
    ELSE IF ~At(s, p, Keyword.the) THEN p
    ELSE LET q == AfterSpaces(s, p + Len(Keyword.the))
         IN IF q > p + Len(Keyword.the) /\ q <= Len(s) /\ s[q] \in Letters
            THEN q ELSE p

\* Where the captured name starts when trigger t matches at i, else 0
NameStart(s, i, t) ==
    IF ~At(s, i, t) THEN 0
    ELSE NameStartAt(s, i + Len(t), AfterSpaces(s, i + Len(t)))

\* Where the captured name ends: after the letters up to e, and after a
\* second word when blanks and a letter follow
NameEnd(s, e) ==
    LET n == AfterSpaces(s, e)
    IN IF n > e /\ n <= Len(s) /\ s[n] \in Letters
       THEN AfterLetters(s, n) ELSE e
Captured(s, q) == SubSeq(s, q, NameEnd(s, AfterLetters(s, q)) - 1)

\* The positions where the expression matches, and where the name starts
\* for the leftmost of them
MatchStarts(s) ==
    {i \in 1..Len(s) : \E t \in Triggers : NameStart(s, i, t) > 0}
Leftmost(starts) == CHOOSE x \in starts : \A y \in starts : x <= y
NameStartOf(s, i) ==
    CHOOSE q \in 1..Len(s) : \E t \in Triggers : NameStart(s, i, t) = q

\* cmd.match(...)[1]: the name captured by the leftmost match, or <<>>
nameMatch(s) ==
    IF MatchStarts(s) = {} THEN <<>>
    ELSE Captured(s, NameStartOf(s, Leftmost(MatchStarts(s))))

\* The intent for a name: 'info' when a cached client's name includes it,
\* else 'search'
clientIntent(query, clients) ==
    LET matched == {c \in clients :
                       includes(toLowerCase(c), toLowerCase(query))}
    IN IF matched # {}
       THEN Intent("info", "client", query, Null,
                   CHOOSE c \in matched : TRUE, 85)
       ELSE Intent("search", "client", query, Null, <<>>, 70)

\* AIAssistant.parseLocalIntent(command), with cachedClients
parseLocalIntent(command, clients) ==
    LET cmd == toLowerCase(command)
    IN
    IF includes(cmd, Keyword.calendar) \/ includes(cmd, Keyword.schedule)
    THEN Intent("navigate", "calendar", <<>>, Null, <<>>, 90)
    ELSE IF includes(cmd, Keyword.dashboard) \/ includes(cmd, Keyword.home)
    THEN Intent("navigate", "dashboard", <<>>, Null, <<>>, 90)
    ELSE IF /\ includes(cmd, Keyword.packet)
            /\ \/ includes(cmd, Keyword.show)
               \/ includes(cmd, Keyword.go)
               \/ includes(cmd, Keyword.open)
    THEN Intent("navigate", "packets", <<>>, Null, <<>>, 90)
    ELSE IF /\ includes(cmd, Keyword.client)
            /\ \/ includes(cmd, Keyword.show)
               \/ includes(cmd, Keyword.list)
               \/ includes(cmd, Keyword.all)
    THEN Intent("navigate", "clients", <<>>, Null, <<>>, 90)
    ELSE IF /\ includes(cmd, Keyword.job)
            /\ includes(cmd, Keyword.show) \/ includes(cmd, Keyword.list)
    THEN Intent("navigate", "jobs", <<>>, Null, <<>>, 90)
    ELSE IF includes(cmd, Keyword.photo) \/ includes(cmd, Keyword.picture)
    THEN Intent("capture", "media", <<>>, "photo", <<>>, 95)
    ELSE IF \/ includes(cmd, Keyword.video)
            \/ includes(cmd, Keyword.recordVideo)
    THEN Intent("capture", "media", <<>>, "video", <<>>, 95)
    ELSE IF \/ includes(cmd, Keyword.voice)
            \/ includes(cmd, Keyword.voiceNote)
            \/ includes(cmd, Keyword.memo)
    THEN Intent("capture", "media", <<>>, "voice", <<>>, 95)
    ELSE IF /\ \/ includes(cmd, Keyword.info)
               \/ includes(cmd, Keyword.find)
               \/ includes(cmd, Keyword.lookUp)
               \/ includes(cmd, Keyword.showMe)
            /\ nameMatch(cmd) # <<>>
    THEN clientIntent(nameMatch(cmd), clients)
    ELSE IF /\ includes(cmd, Keyword.today)
            /\ includes(cmd, Keyword.schedule) \/ includes(cmd, Keyword.jobs)
    THEN ScheduleIntent
    ELSE NoIntent

\* AIAssistant.parseIntent(command) after its local parsing: the local
\* intent when it is confident, else the reply of OpenAI when there is an
\* API key and a usable reply, else the local intent or 'unknown'
parseIntentFrom(localIntent, key, reply) ==
    IF localIntent # NoIntent /\ localIntent.confidence > 80
    THEN localIntent
    ELSE IF key /\ reply # NoIntent THEN reply
    ELSE IF localIntent # NoIntent THEN localIntent
    ELSE UnknownIntent
parseIntent(command, clients, key, reply) ==
    parseIntentFrom(parseLocalIntent(command, clients), key, reply)

\* AIAssistant.executeIntent(intent): what the answer is
executeIntent(intent) ==
    CASE intent.action = "navigate" -> "opening"
      [] intent.action = "search" -> "clientSearch"
      [] intent.action = "capture" -> "capture"
      [] intent.action = "info" -> "clientInfo"
      [] intent.action = "schedule" -> "todayJobs"
      [] intent.action = "create" -> "create"
      [] OTHER -> "notSure"

\* The suggestions of the panel (createUI), as words
Suggestions ==
    {<<<<"S", "h", "o", "w">>,
       <<"m", "e">>,
       <<"t", "o", "d", "a", "y", "'", "s">>,
       <<"s", "c", "h", "e", "d", "u", "l", "e">>>>,
     <<<<"F", "i", "n", "d">>,
       <<"r", "e", "c", "e", "n", "t">>,
       <<"c", "l", "i", "e", "n", "t", "s">>>>,
     <<<<"T", "a", "k", "e">>,
       <<"a">>,
       <<"p", "h", "o", "t", "o">>>>}

\* The page is loaded and AIAssistant.init() runs: it reads the API key,
\* builds the panel and preloads the clients
AIInit(key, clients) ==
    /\ aiApiKey' = key
    /\ aiClients' = clients
    /\ aiListening' = FALSE
    /\ aiSuggestions' = TRUE
    /\ aiCommand' = <<>>
    /\ aiLocal' = NoIntent
    /\ aiIntent' = NoIntent
    /\ aiResponse' = "none"
    /\ UNCHANGED <<commonVars, notAssistant>>

\* AIAssistant.startListening(): the transcript is emptied; the answer
\* recorded is the answer to the transcript, so there is none yet
AIStartListening ==
    /\ ~aiListening
    /\ aiListening' = TRUE
    /\ aiCommand' = <<>>
    /\ aiLocal' = NoIntent
    /\ aiIntent' = NoIntent
    /\ aiResponse' = "none"
    /\ UNCHANGED <<aiApiKey, aiClients, aiSuggestions>>
    /\ UNCHANGED <<commonVars, notAssistant>>

\* handleSpeechEnd() and handleSpeechError() without a final transcript,
\* and stopListening()
AISpeechEnd ==
    /\ aiListening
    /\ aiListening' = FALSE
    /\ UNCHANGED <<aiApiKey, aiClients, aiSuggestions, aiCommand, aiLocal,
                   aiIntent, aiResponse>>
    /\ UNCHANGED <<commonVars, notAssistant>>

\* AIAssistant.processCommand(command): the suggestions are hidden, the
\* intent is parsed and executed, the answer is shown
processCommand(command, reply) ==
    /\ aiSuggestions' = FALSE
    /\ aiCommand' = command
    /\ aiLocal' = parseLocalIntent(command, aiClients)
    /\ aiIntent' = parseIntent(command, aiClients, aiApiKey, reply)
    /\ aiResponse' = executeIntent(aiIntent')

\* handleSpeechResult() with a final transcript; the recognition is not
\* continuous and ends with it
AISpeechResult(ws, reply) ==
    /\ aiListening
    /\ aiListening' = FALSE
    /\ processCommand(JoinWords(ws), reply)
    /\ UNCHANGED <<aiApiKey, aiClients>>
    /\ UNCHANGED <<commonVars, notAssistant>>

\* A suggestion of the panel is clicked
AISuggestion(ws, reply) ==
    /\ aiSuggestions
    /\ processCommand(JoinWords(ws), reply)
    /\ UNCHANGED <<aiApiKey, aiClients, aiListening>>
    /\ UNCHANGED <<commonVars, notAssistant>>

AssistantInitState ==
    /\ aiApiKey = FALSE
    /\ aiClients = {}
    /\ aiListening = FALSE
    /\ aiSuggestions = TRUE
    /\ aiCommand = <<>>
    /\ aiLocal = NoIntent
    /\ aiIntent = NoIntent
    /\ aiResponse = "none"

\* -------------------------------------------------------- assistant claims

\* C19: a command that contains 'today' together with 'schedule' or 'jobs'
\* is parsed locally to the intent {schedule, job, 'today'} and is answered
\* with the list of today's jobs.
C19_TodayScheduleIntent ==
    (/\ includes(toLowerCase(aiCommand), Keyword.today)
     /\ \/ includes(toLowerCase(aiCommand), Keyword.schedule)
        \/ includes(toLowerCase(aiCommand), Keyword.jobs)) =>
        /\ aiLocal = ScheduleIntent
        /\ aiResponse = "todayJobs"

\* ========================================================= specifications
Init ==
    /\ configured \in BOOLEAN
    /\ initialized = FALSE
    /\ StorageInitState
    /\ CrewInitState
    /\ JobsInitState
    /\ CaptureInitState
    /\ PhotoInitState
    /\ TranscribeInitState
    /\ SignatureInitState
    /\ AuthInitState
    /\ VoiceInitState
    /\ AssistantInitState

\* Storage (packet builder page)
Next ==
    \/ SupabaseInit
    \/ StorageNext

Spec == Init /\ [][Next]_vars

\* Crew management
NextCrew ==
    \/ SupabaseInit
    \/ CrewNext

SpecCrew == Init /\ [][NextCrew]_vars

\* The builder page: open, reload, edit and save
NextApp ==
    \/ \E p \in PacketIds \cup {Null, DefaultId}, sb, f \in BOOLEAN :
          AppOpen(p, sb, f)
    \/ \E sb, f \in BOOLEAN : AppReload(sb, f)
    \/ \E d \in Data : EditForm(d)
    \/ \E ok \in BOOLEAN : SaveLocal(ok)
    \/ \E s \in SaveSlots : SaveBegin(s)
    \/ \E s \in SaveSlots, f, i, ok \in BOOLEAN : SaveRemoteReturn(s, f, i, ok)

SpecApp == Init /\ [][NextApp]_vars

\* Calendar: scheduling events, jobs from packets
NextCalendar ==
    \/ SupabaseInit
    \/ \E c \in Clients \cup {Null} : LinkPacketClient(c)
    \/ \E f \in BOOLEAN : JobsCreateFromPacket(f)
    \/ \E c \in Clients : CalendarSelectClient(c)
    \/ CalendarClearClient
    \/ \E d \in Dates, f \in BOOLEAN : CalendarGoToDate(d, f)
    \/ \E d \in Dates, cf, lf \in BOOLEAN : CalendarSaveEvent(d, cf, lf)

SpecCalendar == Init /\ [][NextCalendar]_vars

\* Quick Capture dialog
NextCapture ==
    \/ SupabaseInit
    \/ \E t \in MediaTypes : QCCapture(t)
    \/ QCRetake
    \/ QCAddToBatch
    \/ \E d \in Clients \cup {Null} : QCGoToTagging(d)
    \/ \E d \in Clients \cup {Null} : QCAddAndContinue(d)
    \/ \E k \in 1..MaxBatch : QCThumbnailReturn(k)
    \/ \E k \in 1..MaxBatch : QCRemoveBatchItem(k)
    \/ \E c \in Clients \cup {LocalClient} : QCSelectClient(c)
    \/ QCClearClient
    \/ QCClose
    \/ \E t, ok \in BOOLEAN : QCSaveCall(t, ok)
    \/ \E ok \in BOOLEAN : QCTranscribeReturn(ok)
    \/ \E e, t, ok \in BOOLEAN : QCUploadReturn(e, t, ok)
    \/ \E t, ok \in BOOLEAN : QCAwaitReturn(t, ok)
    \/ \E t, ok \in BOOLEAN : QCDelayReturn(t, ok)

SpecCapture == Init /\ [][NextCapture]_vars

\* Packets and their photos
NextPackets ==
    \/ SupabaseInit
    \/ \E d \in Data, f \in BOOLEAN : PacketInsert(d, f)
    \/ \E id \in PacketIds, s \in PhotoSlots, uf, rf \in BOOLEAN :
          PhotoUpload(id, s, uf, rf)
    \/ \E id \in PacketIds, lf, rf, df \in BOOLEAN :
          DeletePacket(id, lf, rf, df)

SpecPackets == Init /\ [][NextPackets]_vars

\* Transcription
NextTranscribe ==
    \/ ConfigureWindowKey
    \/ ConfigureWindowUrl
    \/ ConfigureMetaKey
    \/ ConfigureMetaUrl
    \/ \E k, u \in BOOLEAN : TranscribeInit(k, u)
    \/ TranscribeCall

SpecTranscribe == Init /\ [][NextTranscribe]_vars

\* Signatures
NextSignature ==
    \/ SupabaseInit
    \/ SignatureDraw
    \/ SignatureClear
    \/ \E p \in PacketIds, f \in BOOLEAN : SignatureSave(p, f)
    \/ \E p \in PacketIds, f \in BOOLEAN : SignatureIsPacketSigned(p, f)

SpecSignature == Init /\ [][NextSignature]_vars

\* The password screen
NextAuth ==
    \/ SupabaseInit
    \/ \E pw \in Passwords : SettingsSetPassword(pw)
    \/ AuthInit
    \/ AuthSessionEnd
    \/ \E pw \in Passwords, f \in BOOLEAN : AuthCheckPassword(pw, f)

SpecAuth == Init /\ [][NextAuth]_vars

\* The voice recorder
NextVoice ==
    \/ VoiceStartRecording
    \/ \E ok \in BOOLEAN : VoiceGetUserMediaReturn(ok)
    \/ \E r \in RecorderIds : VoiceRecorderEnds(r)
    \/ VoiceStopRecording
    \/ \E r \in RecorderIds : VoiceOnStop(r)
    \/ \E r \in RecorderIds, sf \in BOOLEAN : VoiceOnError(r, sf)
    \/ VoiceCancelRecording

SpecVoice == Init /\ [][NextVoice]_vars

\* The voice assistant
NextAssistant ==
    \/ \E key \in BOOLEAN, cs \in SUBSET AIClientNames : AIInit(key, cs)
    \/ AIStartListening
    \/ AISpeechEnd
    \/ \E ws \in UNION {[1..n -> Words] : n \in 1..MaxWords},
          reply \in AIReplies : AISpeechResult(ws, reply)
    \/ \E ws \in Suggestions, reply \in AIReplies : AISuggestion(ws, reply)

SpecAssistant == Init /\ [][NextAssistant]_vars

\* Jobs: listing with filters
NextJobs ==
    \/ SupabaseInit
    \/ \E f \in BOOLEAN : JobsCreateFromPacket(f)
    \/ \E d \in Dates, cf, lf \in BOOLEAN : CalendarSaveEvent(d, cf, lf)
    \/ \E st \in {Null, "pending", "scheduled"}, c \in Clients \cup {Null},
          sd, ed \in Dates \cup {NoDate}, f \in BOOLEAN :
          JobsList(st, c, sd, ed, f)

SpecJobs == Init /\ [][NextJobs]_vars

====
